---- MODULE Spec2Model ----
(***************************************************************************)
(* gh_backup: incremental mirror of remote repositories.                   *)
(* One run of main (src/src/main.rs) loads the ledger LastUpdated          *)
(* (src/src/date.rs), lists every user's repositories concurrently,        *)
(* keeps the outdated entries (src/src/entry.rs), truncates them to        *)
(* `limit`, runs git_update on each concurrently, folds the successful     *)
(* outcomes into the ledger and writes the ledger file.                    *)
(***************************************************************************)
EXTENDS Integers, Sequences, FiniteSets, TLC

\* ------------------------------------------------------------------ bounds
MaxRemote == 2      \* remote timestamps range over 1..MaxRemote
MaxTime   == 3      \* the local clock stops advancing at MaxTime
MaxLimit  == 2      \* --limit ranges over 1..MaxLimit
MaxRuns   == 2      \* consecutive runs of the program

\* ------------------------------------------------------------ input domains
Users == {"u1", "u2"}
Repos == {"a", "b"}

NoEntry == 0        \* HashMap::get returned None

RemoteTimes == 1..MaxRemote
StoredTimes == {1}

Entry == [repo : Repos, last_updated : RemoteTimes]

\* what `gh repo ls <user>` can answer for one user
ListingChoices == {<<>>} \cup {<<e>> : e \in Entry}

\* the provider's data: a repository has one last-modified time, whichever
\* user's listing names it
ProviderChoices ==
    {p \in [Users -> ListingChoices] :
        \A u, v \in Users : \A i \in 1..Len(p[u]), j \in 1..Len(p[v]) :
            p[u][i].repo = p[v][j].repo => p[u][i].last_updated = p[v][j].last_updated}

EmptyLedger == [r \in Repos |-> NoEntry]

\* contents of the ledger file before the first run
InitialDisks ==
    {[kind |-> "absent", map |-> EmptyLedger], [kind |-> "corrupt", map |-> EmptyLedger]}
    \cup {[kind |-> "ok", map |-> m] : m \in [Repos -> {NoEntry} \cup StoredTimes]}

VARIABLES
    run,            \* number of the current run
    pc,             \* position of main
    fail_stage,     \* the stage that made main return Err, or where it was killed
    now,            \* Local::now()
    provider,       \* the directory provider's data, per user
    limit,          \* Cli::limit
    disk,           \* the ledger file last_updated.json
    disk0,          \* the ledger file as it was when the run started
    writes,         \* File::create calls that succeeded in this run
    last_updated,   \* the in-memory ledger LastUpdated
    loaded,         \* the ledger as read_from_file returned it
    entry_set,      \* listing subtasks, per user
    to_update,      \* Vec<Entry> of outdated entries
    candidates,     \* to_update as it was right before truncate(limit)
    update_set,     \* sync subtasks, in spawn order
    prev            \* summary of the previous run

vars == <<run, pc, fail_stage, now, provider, limit, disk, disk0, writes,
          last_updated, loaded, entry_set, to_update, candidates, update_set, prev>>

Min(a, b) == IF a < b THEN a ELSE b

\* ------------------------------------------------------------ date.rs

\* the comparison turned around
IsOutdatedFlipped(ledger, entry) ==
    IF ledger[entry.repo] # NoEntry
    THEN entry.last_updated <= ledger[entry.repo]
    ELSE TRUE

\* a repository without an entry taken as current
IsOutdatedUnknownCurrent(ledger, entry) ==
    IF ledger[entry.repo] # NoEntry
    THEN entry.last_updated >= ledger[entry.repo]
    ELSE FALSE

\* LastUpdated::is_outdated
IsOutdated(ledger, entry) ==
    IF ledger[entry.repo] # NoEntry
    THEN entry.last_updated >= ledger[entry.repo]
    ELSE TRUE

\* LastUpdated::update
Update(ledger, repo, at) == [ledger EXCEPT ![repo] = at]

\* a file that does not parse taken as an empty ledger
ReadFromFileLenient(d) ==
    IF d.kind = "ok" THEN [ok |-> TRUE, ledger |-> d.map]
    ELSE [ok |-> TRUE, ledger |-> EmptyLedger]

\* LastUpdated::read_from_file: the result for a given file content
ReadFromFile(d) ==
    CASE d.kind = "absent" -> [ok |-> TRUE, ledger |-> EmptyLedger]
      [] d.kind = "ok"     -> [ok |-> TRUE, ledger |-> d.map]
      [] OTHER             -> [ok |-> FALSE, ledger |-> EmptyLedger]

\* ------------------------------------------------------------ entry.rs

\* the is_outdated test of visit_seq dropped
VisitSeqAll(ledger, response) == response

\* DeserializeUserRepos::visit_seq: the entries pushed for one response
VisitSeq(ledger, response) ==
    SelectSeq(response, LAMBDA e : IsOutdated(ledger, e))

\* ------------------------------------------------------------ main.rs

\* the truncation left out
TruncateNone(s, n) == s

\* Vec::truncate
Truncate(s, n) == SubSeq(s, 1, Min(Len(s), n))

\* a freshly spawned git_update future, not yet polled
NewTask(entry) ==
    [repo |-> entry.repo, st |-> "spawned", execute_time |-> NoEntry,
     pull |-> "none", clone |-> "none", clones |-> 0,
     ret_time |-> NoEntry, ret_ok |-> FALSE]

\* the negation of line 69 dropped
NeedsFallbackInverted(res) == res = "ok"

\* git_update line 69: does the pull's result trigger the clone?
NeedsFallback(res) == res = "fail"

\* the clock read when the sync ends instead of when it starts
OutcomeAtCompletion(task, status, clock) ==
    [task EXCEPT !.st = "ok", !.ret_time = clock, !.ret_ok = (status = "ok")]

\* git_update line 81: the tuple returned, given the final ExitStatus
Outcome(task, status, clock) ==
    [task EXCEPT !.st = "ok", !.ret_time = task.execute_time,
                 !.ret_ok = (status = "ok")]

\* the ExitStatus test of line 140 dropped
FoldAlways(ledger, task) == Update(ledger, task.repo, task.ret_time)

\* main lines 139-142: fold one outcome into the ledger
Fold(ledger, task) ==
    IF task.ret_ok THEN Update(ledger, task.repo, task.ret_time) ELSE ledger

\* a subtask that has not produced its result yet
InFlight(task) == task.st \in {"spawned", "pull", "clone"}
\* a subtask's Err never handed to main
UncollectedOkOnly(task) == task.st = "ok"

\* a subtask whose result join_next has not handed to main yet
Uncollected(task) == task.st \in {"ok", "err"}

\* `if let` for `while let` at line 138: one outcome ends the loop
UpdateSetOneJoined ==
    update_set = <<>> \/ \E i \in 1..Len(update_set) : update_set[i].st = "joined"

\* the updates spawned as soon as one listing was joined
EntrySetOneJoined == \E u \in Users : entry_set[u] \in {"joined", "joined_err"}

\* a malformed response skipped instead of propagated
ListingFailedIoOnly(res) == res = "ioerr"

\* main lines 122 and 125: the `?`s that end main on a listing's result
ListingFailed(res) == res # "ok"

\* entry_set.join_next() returns None: every listing was joined
EntrySetEmpty == \A u \in Users : entry_set[u] \in {"joined", "joined_err"}
UpdateSetEmpty == \A i \in 1..Len(update_set) : update_set[i].st = "joined"

\* dropping a JoinSet aborts every task still in it
AbortListings == [u \in Users |->
    IF entry_set[u] \in {"running", "ok", "ioerr", "malformed"} THEN "aborted" ELSE entry_set[u]]
AbortUpdates == [i \in 1..Len(update_set) |->
    IF InFlight(update_set[i]) \/ Uncollected(update_set[i])
    THEN [update_set[i] EXCEPT !.st = "aborted"] ELSE update_set[i]]

Init ==
    /\ run = 1
    /\ pc = "start"
    /\ fail_stage = "none"
    /\ now = MaxRemote
    /\ provider \in ProviderChoices
    /\ limit \in 1..MaxLimit
    /\ disk \in InitialDisks
    /\ disk0 = disk
    /\ writes = 0
    /\ last_updated = EmptyLedger
    /\ loaded = EmptyLedger
    /\ entry_set = [u \in Users |-> "none"]
    /\ to_update = <<>>
    /\ candidates = <<>>
    /\ update_set = <<>>
    /\ prev = [clean |-> FALSE]

\* main lines 96-117: read the ledger, spawn one listing per user
Start ==
    /\ pc = "start"
    /\ LET r == ReadFromFile(disk) IN
       IF r.ok
       THEN /\ last_updated' = r.ledger
            /\ loaded' = r.ledger
            /\ entry_set' = [u \in Users |-> "running"]
            /\ pc' = "listing"
            /\ UNCHANGED fail_stage
       ELSE /\ pc' = "failed"
            /\ fail_stage' = "load"
            /\ UNCHANGED <<last_updated, loaded, entry_set>>
    /\ UNCHANGED <<run, now, provider, limit, disk, disk0, writes, to_update,
                   candidates, update_set, prev>>

\* the `gh repo ls` process of one user ends
ListingExit(u, res) ==
    /\ pc = "listing"
    /\ entry_set[u] = "running"
    /\ entry_set' = [entry_set EXCEPT ![u] = res]
    /\ UNCHANGED <<run, pc, fail_stage, now, provider, limit, disk, disk0, writes,
                   last_updated, loaded, to_update, candidates, update_set, prev>>

\* main lines 121-126: join one finished listing and filter its entries.
\* A malformed response is cut somewhere; the entries before the cut have
\* been visited when the deserializer fails.
JoinListing(u) ==
    /\ pc = "listing"
    /\ entry_set[u] \in {"ok", "ioerr", "malformed"}
    /\ LET res == entry_set[u]
           mark == IF res = "ok" THEN "joined" ELSE "joined_err" IN
       /\ \E k \in 0..Len(provider[u]) :
             /\ res = "ok" => k = Len(provider[u])
             /\ res = "ioerr" => k = 0
             /\ to_update' = to_update \o VisitSeq(last_updated, SubSeq(provider[u], 1, k))
       /\ IF ListingFailed(res)
          THEN /\ entry_set' = [AbortListings EXCEPT ![u] = mark]
               /\ pc' = "failed"
               /\ fail_stage' = "listing"
          ELSE /\ entry_set' = [entry_set EXCEPT ![u] = mark]
               /\ UNCHANGED <<pc, fail_stage>>
    /\ UNCHANGED <<run, now, provider, limit, disk, disk0, writes, last_updated,
                   loaded, candidates, update_set, prev>>

\* main lines 128-135: truncate to limit and spawn git_update for each entry
SpawnUpdates ==
    /\ pc = "listing"
    /\ EntrySetEmpty
    /\ candidates' = to_update
    /\ update_set' = [i \in 1..Len(Truncate(to_update, limit)) |->
                         NewTask(Truncate(to_update, limit)[i])]
    /\ to_update' = <<>>
    /\ pc' = "updating"
    /\ UNCHANGED <<run, fail_stage, now, provider, limit, disk, disk0, writes,
                   last_updated, loaded, entry_set, prev>>

\* git_update lines 59-67: read the clock, start `git pull`
PullStart(i, spawned) ==
    /\ pc = "updating"
    /\ i \in 1..Len(update_set)
    /\ update_set[i].st = "spawned"
    /\ update_set' = [update_set EXCEPT ![i] =
          IF spawned
          THEN [@ EXCEPT !.st = "pull", !.execute_time = now, !.pull = "running"]
          ELSE [@ EXCEPT !.st = "err", !.execute_time = now, !.pull = "ioerr"]]
    /\ UNCHANGED <<run, pc, fail_stage, now, provider, limit, disk, disk0, writes,
                   last_updated, loaded, entry_set, to_update, candidates, prev>>

\* git_update lines 67-81: the pull ends; clone on failure
PullExit(i, res, spawned) ==
    /\ pc = "updating"
    /\ i \in 1..Len(update_set)
    /\ update_set[i].st = "pull"
    /\ LET t == [update_set[i] EXCEPT !.pull = res] IN
       update_set' = [update_set EXCEPT ![i] =
          CASE res = "ioerr" -> [t EXCEPT !.st = "err"]
            [] res # "ioerr" /\ NeedsFallback(res) /\ spawned ->
                 [t EXCEPT !.st = "clone", !.clone = "running", !.clones = @ + 1]
            [] res # "ioerr" /\ NeedsFallback(res) /\ ~spawned ->
                 [t EXCEPT !.st = "err", !.clone = "ioerr", !.clones = @ + 1]
            [] OTHER -> Outcome(t, res, now)]
    /\ UNCHANGED <<run, pc, fail_stage, now, provider, limit, disk, disk0, writes,
                   last_updated, loaded, entry_set, to_update, candidates, prev>>

\* git_update lines 76-81: the clone ends
CloneExit(i, res) ==
    /\ pc = "updating"
    /\ i \in 1..Len(update_set)
    /\ update_set[i].st = "clone"
    /\ LET t == [update_set[i] EXCEPT !.clone = res] IN
       update_set' = [update_set EXCEPT ![i] =
          IF res = "ioerr" THEN [t EXCEPT !.st = "err"] ELSE Outcome(t, res, now)]
    /\ UNCHANGED <<run, pc, fail_stage, now, provider, limit, disk, disk0, writes,
                   last_updated, loaded, entry_set, to_update, candidates, prev>>

\* main lines 138-143: join one finished git_update and fold its outcome
JoinUpdate(i) ==
    /\ pc = "updating"
    /\ i \in 1..Len(update_set)
    /\ Uncollected(update_set[i])
    /\ IF update_set[i].st = "err"
       THEN /\ pc' = "failed"
            /\ fail_stage' = "sync"
            /\ update_set' = [AbortUpdates EXCEPT ![i] = [update_set[i] EXCEPT !.st = "joined_err"]]
            /\ UNCHANGED last_updated
       ELSE /\ update_set' = [update_set EXCEPT ![i].st = "joined"]
            /\ last_updated' = Fold(last_updated, update_set[i])
            /\ UNCHANGED <<pc, fail_stage>>
    /\ UNCHANGED <<run, now, provider, limit, disk, disk0, writes, loaded,
                   entry_set, to_update, candidates, prev>>

\* write_to_file line 29: File::create truncates the ledger file
WriteCreate(created) ==
    /\ pc = "updating"
    /\ UpdateSetEmpty
    /\ IF created
       THEN /\ disk' = [kind |-> "partial", map |-> EmptyLedger]
            /\ writes' = writes + 1
            /\ pc' = "writing"
            /\ UNCHANGED fail_stage
       ELSE /\ pc' = "failed"
            /\ fail_stage' = "save"
            /\ UNCHANGED <<disk, writes>>
    /\ UNCHANGED <<run, now, provider, limit, disk0, last_updated, loaded,
                   entry_set, to_update, candidates, update_set, prev>>

\* write_to_file lines 30-32: serialize through a BufWriter.  "lost" is a
\* write error met when the BufWriter is flushed on drop, which is ignored.
WriteBody(res) ==
    /\ pc = "writing"
    /\ CASE res = "ok" ->
              /\ disk' = [kind |-> "ok", map |-> last_updated]
              /\ pc' = "done"
              /\ UNCHANGED fail_stage
         [] res = "lost" ->
              /\ pc' = "done"
              /\ UNCHANGED <<disk, fail_stage>>
         [] OTHER ->
              /\ pc' = "failed"
              /\ fail_stage' = "save"
              /\ UNCHANGED disk
    /\ UNCHANGED <<run, now, provider, limit, disk0, writes, last_updated, loaded,
                   entry_set, to_update, candidates, update_set, prev>>

\* the process is killed (power loss, SIGKILL) anywhere in the run: its
\* memory and its subtasks are gone, the ledger file stays as it is
Crash ==
    /\ pc \in {"start", "listing", "updating", "writing"}
    /\ pc' = "crashed"
    /\ fail_stage' = pc
    /\ last_updated' = EmptyLedger
    /\ loaded' = EmptyLedger
    /\ entry_set' = [u \in Users |-> "none"]
    /\ to_update' = <<>>
    /\ candidates' = <<>>
    /\ update_set' = <<>>
    /\ UNCHANGED <<run, now, provider, limit, disk, disk0, writes, prev>>

\* the local clock advances; only git_update reads it, so its advance is
\* tracked while the sync wave runs
Tick ==
    /\ pc = "updating"
    /\ \E i \in 1..Len(update_set) : InFlight(update_set[i])
    /\ now < MaxTime
    /\ now' = now + 1
    /\ UNCHANGED <<run, pc, fail_stage, provider, limit, disk, disk0, writes,
                   last_updated, loaded, entry_set, to_update, candidates,
                   update_set, prev>>

\* every listed outdated entry was synced successfully, after its remote
\* timestamp, and the ledger was written
CleanRun ==
    /\ pc = "done"
    /\ disk = [kind |-> "ok", map |-> last_updated]
    /\ Len(candidates) = Len(update_set)
    /\ \A i \in 1..Len(update_set) :
          /\ update_set[i].st = "joined"
          /\ update_set[i].ret_ok
          /\ update_set[i].execute_time > candidates[i].last_updated

\* the operator starts the program again
NextRun ==
    /\ pc \in {"done", "failed", "crashed"}
    /\ run < MaxRuns
    /\ run' = run + 1
    /\ pc' = "start"
    /\ fail_stage' = "none"
    /\ disk0' = disk
    /\ writes' = 0
    /\ last_updated' = EmptyLedger
    /\ loaded' = EmptyLedger
    /\ entry_set' = [u \in Users |-> "none"]
    /\ to_update' = <<>>
    /\ candidates' = <<>>
    /\ update_set' = <<>>
    /\ prev' = [clean |-> CleanRun]
    /\ UNCHANGED <<now, provider, limit, disk>>

Next ==
    \/ Start
    \/ \E u \in Users, res \in {"ok", "ioerr", "malformed"} : ListingExit(u, res)
    \/ \E u \in Users : JoinListing(u)
    \/ SpawnUpdates
    \/ \E i \in 1..MaxLimit, spawned \in BOOLEAN : PullStart(i, spawned)
    \/ \E i \in 1..MaxLimit, res \in {"ok", "fail", "ioerr"}, spawned \in BOOLEAN :
          PullExit(i, res, spawned)
    \/ \E i \in 1..MaxLimit, res \in {"ok", "fail", "ioerr"} : CloneExit(i, res)
    \/ \E i \in 1..MaxLimit : JoinUpdate(i)
    \/ \E created \in BOOLEAN : WriteCreate(created)
    \/ \E res \in {"ok", "lost", "err"} : WriteBody(res)
    \/ Crash
    \/ Tick
    \/ NextRun

Spec == Init /\ [][Next]_vars

\* ---------------------------------------------------------------- one run
\* the steps tokio's current_thread scheduler takes: main and the polls of
\* the subtasks that are ready
Scheduler ==
    \/ Start
    \/ \E u \in Users : JoinListing(u)
    \/ SpawnUpdates
    \/ \E i \in 1..MaxLimit, spawned \in BOOLEAN : PullStart(i, spawned)
    \/ \E i \in 1..MaxLimit : JoinUpdate(i)
    \/ \E created \in BOOLEAN : WriteCreate(created)
    \/ \E res \in {"ok", "lost", "err"} : WriteBody(res)

\* the external processes (gh repo ls, git pull, gh repo clone) end
ListingEnds(u) == \E res \in {"ok", "ioerr", "malformed"} : ListingExit(u, res)
PullEnds(i) == \E res \in {"ok", "fail", "ioerr"}, spawned \in BOOLEAN : PullExit(i, res, spawned)
CloneEnds(i) == \E res \in {"ok", "fail", "ioerr"} : CloneExit(i, res)

RunNext ==
    \/ Scheduler
    \/ \E u \in Users : ListingEnds(u)
    \/ \E i \in 1..MaxLimit : PullEnds(i)
    \/ \E i \in 1..MaxLimit : CloneEnds(i)
    \/ Tick

\* one run that is not killed, every ready task is polled and every
\* external process ends
LiveSpec ==
    /\ Init
    /\ [][RunNext]_vars
    /\ WF_vars(Scheduler)
    /\ \A u \in Users : WF_vars(ListingEnds(u))
    /\ \A i \in 1..MaxLimit : WF_vars(PullEnds(i)) /\ WF_vars(CloneEnds(i))

\* ------------------------------------------------------------------ claims

Tasks == 1..Len(update_set)
JoinedOk(i) == update_set[i].st = "joined" /\ update_set[i].ret_ok
JoinedFailed(i) == update_set[i].st = "joined" /\ ~update_set[i].ret_ok
Spawned == pc \in {"updating", "writing", "done"} \/ fail_stage \in {"sync", "save"}

\* C1: is_outdated is true iff the ledger has no entry for the repository or
\* the stored timestamp is strictly earlier than the entry's remote
\* timestamp; a tie is not outdated.
C1_OutdatedIffStrictlyEarlier ==
    \A r \in Repos, t \in RemoteTimes :
        IsOutdated(last_updated, [repo |-> r, last_updated |-> t])
            <=> (last_updated[r] = NoEntry \/ last_updated[r] < t)

\* C2: a sync invocation error is a failed outcome of that repository only:
\* the run does not fail because of it and no sibling subtask is dropped.
C2_InvocationErrorIsLocal ==
    \A i \in Tasks : update_set[i].st = "joined_err" =>
        /\ pc # "failed"
        /\ \A j \in Tasks : update_set[j].st # "aborted"

C4_DiskUntouchedDuringWave ==
    /\ writes <= 1
    /\ writes = 0 => disk = disk0
    /\ (\E i \in Tasks : InFlight(update_set[i]) \/ Uncollected(update_set[i]))
          => writes = 0
    /\ pc \in {"start", "listing", "updating"} => writes = 0
    /\ (pc = "crashed" /\ fail_stage \in {"start", "listing", "updating"}) => disk = disk0

C4_Witness ==
    /\ \E i, j \in Tasks : InFlight(update_set[i]) /\ JoinedOk(j)
    /\ last_updated # loaded
    /\ disk = disk0

\* C5: a later load never sees a partial ledger file, whatever happened to
\* the save before it.
C5_SaveIsAtomic ==
    pc = "start" => disk.kind # "partial"

\* C6: the clone is invoked exactly once if the pull completed and reported
\* failure and never otherwise; the outcome's success flag is the clone's
\* result when the clone ran, else the pull's.
C6_FallbackOnce ==
    \A i \in Tasks :
        LET t == update_set[i] IN
        /\ t.clones <= 1
        /\ t.clones = 1 <=> t.pull = "fail"
        /\ t.clones = 0 <=> t.clone = "none"
        /\ t.st \in {"ok", "joined"} =>
              t.ret_ok = (IF t.clones = 1 THEN t.clone = "ok" ELSE t.pull = "ok")

C6_Witness ==
    \E i, j \in Tasks :
        /\ update_set[i].st = "ok" /\ update_set[i].clones = 1 /\ update_set[i].ret_ok
        /\ update_set[j].st = "err" /\ update_set[j].pull = "ioerr" /\ update_set[j].clones = 0

\* C7: the watermark recorded for a successfully synced repository is the
\* time its sync was initiated, so every remote timestamp later than that
\* makes the repository outdated again.
C7_WatermarkIsAttemptTime ==
    \A r \in Repos :
        LET S == {i \in Tasks : update_set[i].repo = r /\ JoinedOk(i)} IN
        S # {} =>
            /\ last_updated[r] \in {update_set[i].execute_time : i \in S}
            /\ \A i \in S : update_set[i].execute_time # NoEntry
            /\ \A t \in (last_updated[r] + 1)..(MaxTime + 1) :
                  IsOutdated(last_updated, [repo |-> r, last_updated |-> t])

\* one sync only, and the clock advanced while it ran
C7_Witness ==
    /\ Len(update_set) = 1
    /\ JoinedOk(1)
    /\ update_set[1].execute_time < now
    /\ last_updated[update_set[1].repo] = update_set[1].execute_time

RepoRank(r) == IF r = "a" THEN 1 ELSE 2
SortedById(s) == SortSeq(s, LAMBDA x, y : RepoRank(x.repo) < RepoRank(y.repo))

\* C8: the repositories synced in a run are the first `limit` candidates in
\* repository id order.
C8_TruncationSortedById ==
    Spawned =>
        {update_set[i].repo : i \in Tasks} =
            {Truncate(SortedById(candidates), limit)[i].repo :
                i \in 1..Len(Truncate(candidates, limit))}

\* C9: no two in-flight sync subtasks target the same repository id.
C9_NoTwoSyncsOfOneRepo ==
    \A i, j \in Tasks :
        (i # j /\ update_set[i].st \in {"pull", "clone"} /\ update_set[j].st \in {"pull", "clone"})
            => update_set[i].repo # update_set[j].repo

\* C10: after a run in which every listed outdated repository was within
\* the limit and synced successfully at an attempt time later than its
\* remote timestamp, the next run over the same provider data has no
\* candidate, launches no sync and leaves the ledger mapping unchanged.
C10_SecondRunIdle ==
    prev.clean =>
        /\ to_update = <<>>
        /\ candidates = <<>>
        /\ update_set = <<>>
        /\ pc \in {"listing", "updating", "writing", "done"} => last_updated = disk0.map
        /\ disk.kind = "ok" => disk.map = disk0.map

\* the first run recorded a watermark, the second run went through
C10_Witness ==
    /\ prev.clean
    /\ pc = "done"
    /\ disk.kind = "ok"
    /\ \E u \in Users : provider[u] # <<>> /\
          disk.map[provider[u][1].repo] > provider[u][1].last_updated

\* how often entry e occurs in sequence s
Count(s, e) == Cardinality({i \in 1..Len(s) : s[i] = e})
Listed(e) == Count(provider["u1"], e) + Count(provider["u2"], e)

ListingFailure ==
    \/ pc = "failed" /\ fail_stage = "listing"
    \/ \E u \in Users : entry_set[u] \in {"ioerr", "malformed", "joined_err"}

\* C12: if a listing fails, the run ends with an error before any sync
\* subtask is launched, and the ledger is unchanged in memory and on disk.
C12_ListingFailFast ==
    ListingFailure =>
        /\ pc \in {"listing", "failed"}
        /\ (\E u \in Users : entry_set[u] = "joined_err") => pc = "failed" /\ fail_stage = "listing"
        /\ update_set = <<>>
        /\ last_updated = loaded
        /\ disk = disk0 /\ writes = 0

\* one listing was joined with its entries, the other one failed
C12_Witness ==
    /\ pc = "failed" /\ fail_stage = "listing"
    /\ to_update # <<>>
    /\ \E u, v \in Users : entry_set[u] = "joined" /\ entry_set[v] = "joined_err"

LoadFailure == pc = "failed" /\ fail_stage = "load"

\* C13: an absent ledger file gives an empty ledger and the run goes on; a
\* file that does not parse ends the run before any listing or sync
\* subtask is launched and without writing the file.
C13_AbsentIsEmptyCorruptIsFatal ==
    /\ LoadFailure =>
          /\ \A u \in Users : entry_set[u] = "none"
          /\ update_set = <<>>
          /\ writes = 0 /\ disk = disk0
    /\ (disk0.kind = "absent" /\ pc \notin {"start", "crashed"}) =>
          ~LoadFailure /\ loaded = EmptyLedger
    /\ (disk0.kind \in {"corrupt", "partial"} /\ pc \notin {"start", "crashed"}) =>
          LoadFailure

C13_Witness ==
    LoadFailure /\ disk.kind = "corrupt"

\* C14: a repository without a ledger entry is outdated for every remote
\* timestamp; on a first run (no ledger file) every listed repository is a
\* candidate.
C14_NeverRecordedIsOutdated ==
    /\ \A r \in Repos : last_updated[r] = NoEntry =>
          \A t \in RemoteTimes : IsOutdated(last_updated, [repo |-> r, last_updated |-> t])
    /\ (disk0.kind = "absent" /\ Spawned) =>
          /\ Len(candidates) = Len(provider["u1"]) + Len(provider["u2"])
          /\ \A e \in Entry : Count(candidates, e) = Listed(e)

C14_Witness ==
    /\ disk0.kind = "absent"
    /\ pc = "updating"
    /\ Len(candidates) = 2
    /\ candidates[1].repo # candidates[2].repo

\* the candidates that truncate(limit) dropped
Dropped == (Len(update_set) + 1)..Len(candidates)

C16_ExitStatusReflectsPersist ==
    pc \in {"done", "failed"} =>
        (pc = "done" <=> (writes = 1 /\ disk = [kind |-> "ok", map |-> last_updated]))

C18_NoCancellation ==
    \A i \in Tasks : update_set[i].st # "aborted"

\* C19: no sync subtask exists before every listing was joined and the
\* candidate list truncated; every subtask of a wave is launched before
\* any is joined; the listing wave reads the ledger as loaded.
C19_WavesOrdered ==
    /\ update_set # <<>> =>
          /\ \A u \in Users : entry_set[u] = "joined"
          /\ Len(update_set) = Min(limit, Len(candidates))
          /\ to_update = <<>>
    /\ (\E u \in Users : entry_set[u] \in {"joined", "joined_err"}) =>
          \A u \in Users : entry_set[u] # "none"
    /\ pc = "listing" => last_updated = loaded /\ update_set = <<>>
    /\ (\E u \in Users : entry_set[u] \in {"running", "ok", "ioerr", "malformed"}) =>
          pc = "listing"

C19_Witness ==
    /\ pc = "updating"
    /\ Len(candidates) = 2 /\ Len(update_set) = 1
    /\ update_set[1].st = "spawned"
    /\ \A u \in Users : entry_set[u] = "joined"

Terminated == pc \in {"done", "failed"}
ExternalPending ==
    \/ \E u \in Users : entry_set[u] = "running"
    \/ \E i \in Tasks : update_set[i].st \in {"pull", "clone"}

\* C20: with every ready task polled and every external process ending,
\* the run ends, saved or with an error; while it has not ended, main or a
\* subtask can step unless an external process is still running.
C20_RunTerminates ==
    /\ [](~Terminated => (ENABLED <<Scheduler>>_vars \/ ExternalPending))
    /\ <>Terminated

\* both syncs went through the pull and the clone, and the ledger was saved
C20_Witness ==
    /\ pc = "done"
    /\ Len(update_set) = 2
    /\ \A i \in Tasks : update_set[i].clones = 1 /\ update_set[i].st = "joined"

====
